---- MODULE Spec2Model ----
(***************************************************************************)
(* Tic-Tac-Toe player (tictactoe.py): the board model (player, actions,    *)
(* result, winner, terminal, utility) and the minimax search with          *)
(* alpha-beta pruning.                                                     *)
(*                                                                         *)
(* A board is a list of three rows of three cells, indexed 0..2 as in the  *)
(* source; a cell holds X, O or EMPTY (Python's None).  An action is the   *)
(* pair <<i, j>>.  Operators take the board as the parameter `b`; the      *)
(* variable `board` is the board the caller holds.                         *)
(***************************************************************************)
EXTENDS Integers, Sequences, FiniteSets, TLC

VARIABLES
    board,      \* the board the caller holds (its value before the last call)
    order,      \* which iteration order the implementation's sets have
    call,       \* the operation last called on `board` ("none": none yet)
    arg,        \* the action passed to the last call of result(), else <<>>
    ret,        \* what the last call returned or raised (for minimax(): with
                \* nodeList as the call left it)
    heap,       \* the list objects in memory, by address
    engine,     \* the mark the search plays in an engine game, else None
    moves       \* moves played so far

vars == <<board, order, call, arg, ret, heap, engine, moves>>

\* ---------------------------------------------------------------- values
X == "X"
O == "O"
None == "None"
EMPTY == None

Idx == 0..2
Cells == Idx \X Idx
Marks == {EMPTY, X, O}
AllBoards == [Idx -> [Idx -> Marks]]

\* initial_state(): the all-EMPTY board
initial_state == [i \in Idx |-> [j \in Idx |-> EMPTY]]

\* Python's built-in max and min on two integers
max(a, b) == IF a >= b THEN a ELSE b
min(a, b) == IF a <= b THEN a ELSE b

\* What a call did: returned a value, or raised an exception.
Returned(v) == [raised |-> "none", value |-> v]
Raised(e) == [raised |-> e, value |-> <<>>]

\* ------------------------------------------------------------ winner
\* checkVerical: the loop over col = 0, 1, 2 returns True at the first
\* column holding `p` in all three rows.
checkVerical(b, p) ==
    \/ (b[0][0] = p /\ b[1][0] = p /\ b[2][0] = p)
    \/ (b[0][1] = p /\ b[1][1] = p /\ b[2][1] = p)
    \/ (b[0][2] = p /\ b[1][2] = p /\ b[2][2] = p)

\* checkHorizontal: the loop over row = 0, 1, 2 returns True at the first
\* row holding `p` in all three columns.
checkHorizontal(b, p) ==
    \/ (b[0][0] = p /\ b[0][1] = p /\ b[0][2] = p)
    \/ (b[1][0] = p /\ b[1][1] = p /\ b[1][2] = p)
    \/ (b[2][0] = p /\ b[2][1] = p /\ b[2][2] = p)

\* A bug checkDiagonally could have: the second loop walks the same diagonal.
checkDiagonally_sameDiagonal(b, p) ==
    b[0][0] = p /\ b[1][1] = p /\ b[2][2] = p

\* checkDiagonally: one flag per diagonal, cleared by a cell that is not `p`;
\* the second loop visits (0,2), (1,1), (2,0).
checkDiagonally(b, p) ==
    LET diagonal_fromTopLeft == b[0][0] = p /\ b[1][1] = p /\ b[2][2] = p
        diagonal_fromBottomLeft == b[0][2] = p /\ b[1][1] = p /\ b[2][0] = p
    IN  diagonal_fromBottomLeft \/ diagonal_fromTopLeft

checkPlayer(b, p) ==
    checkHorizontal(b, p) \/ checkVerical(b, p) \/ checkDiagonally(b, p)

\* A bug winner() could have: O is checked before X.
winner_OFirst(b) ==
    IF checkPlayer(b, O) THEN O
    ELSE IF checkPlayer(b, X) THEN X
    ELSE None

\* winner(): X is checked first, then O.
winner(b) ==
    IF checkPlayer(b, X) THEN X
    ELSE IF checkPlayer(b, O) THEN O
    ELSE None

\* ------------------------------------------------------------ player
\* The cells in the order the counting loops visit them.
CellList(b) ==
    <<b[0][0], b[0][1], b[0][2], b[1][0], b[1][1], b[1][2], b[2][0], b[2][1], b[2][2]>>

\* The counter the loops of player() and terminal() keep for mark `p`.
Count(b, p) ==
    LET Is(c) == c = p
    IN  Len(SelectSeq(CellList(b), Is))

xCount(b) == Count(b, X)
oCount(b) == Count(b, O)

\* A bug player() could have: O is made the first mover.
player_OFirst(b) ==
    IF winner(b) # None THEN None
    ELSE IF xCount(b) + oCount(b) = 9 THEN None
    ELSE IF xCount(b) = oCount(b) THEN O
    ELSE X

\* player(): None once there is a winner or the board is full, X when the
\* counts are equal, O otherwise.
player(b) ==
    IF winner(b) # None THEN None
    ELSE IF xCount(b) + oCount(b) = 9 THEN None
    ELSE IF xCount(b) = oCount(b) THEN X
    ELSE O

\* ---------------------------------------------------------- terminal
terminal(b) ==
    IF winner(b) # None THEN TRUE
    ELSE IF xCount(b) + oCount(b) = 9 THEN TRUE
    ELSE FALSE

\* ----------------------------------------------------------- utility
utility(b) ==
    LET winningPlayer == winner(b)
    IN  IF winningPlayer = X THEN 1
        ELSE IF winningPlayer = O THEN -1
        ELSE 0

\* ----------------------------------------------------------- actions
\* The set actions() builds: the coordinates of the EMPTY cells.
possibleActions(b) == {c \in Cells : b[c[1]][c[2]] = EMPTY}

\* Iteration orders of a Python set of coordinate pairs.  The language does
\* not fix the order; each entry is one order in which the nine cells can come
\* out, and a set iterates as that order restricted to its members.
\*   1: the order CPython 3.11 yields for the nine-cell set
\*   2: row-major (the order of insertion)
\*   3: reverse row-major
\*   4: column-major
\*   5: centre, corners, edges
\*   6: edges, corners, centre
OrderTable == <<
    << <<0,1>>, <<1,2>>, <<2,1>>, <<0,0>>, <<1,1>>, <<2,0>>, <<0,2>>, <<2,2>>, <<1,0>> >>,
    << <<0,0>>, <<0,1>>, <<0,2>>, <<1,0>>, <<1,1>>, <<1,2>>, <<2,0>>, <<2,1>>, <<2,2>> >>,
    << <<2,2>>, <<2,1>>, <<2,0>>, <<1,2>>, <<1,1>>, <<1,0>>, <<0,2>>, <<0,1>>, <<0,0>> >>,
    << <<0,0>>, <<1,0>>, <<2,0>>, <<0,1>>, <<1,1>>, <<2,1>>, <<0,2>>, <<1,2>>, <<2,2>> >>,
    << <<1,1>>, <<0,0>>, <<0,2>>, <<2,0>>, <<2,2>>, <<0,1>>, <<1,0>>, <<1,2>>, <<2,1>> >>,
    << <<1,0>>, <<2,1>>, <<1,2>>, <<0,1>>, <<2,2>>, <<2,0>>, <<0,2>>, <<0,0>>, <<1,1>> >>
    >>

\* How many of these orders are explored.
NumOrders == 2
Orders == 1..min(NumOrders, Len(OrderTable))

\* `for action in <set>`: the EMPTY cells of `b` in the iteration order
Enumerate(b) ==
    LET IsEmpty(c) == b[c[1]][c[2]] = EMPTY
    IN  SelectSeq(OrderTable[order], IsEmpty)

\* A bug actions() could have: the empty set is returned as it is.
actions_emptySet(b) ==
    [isNone |-> FALSE, items |-> Enumerate(b)]

\* actions(): the set when it is not empty, else None
actions(b) ==
    LET items == Enumerate(b)
    IN  IF Len(items) # 0
        THEN [isNone |-> FALSE, items |-> items]
        ELSE [isNone |-> TRUE, items |-> <<>>]

\* ------------------------------------------------------------ result
\* The board result() returns for an action that is not None: the copy of `b`
\* with the mark of player(b) stored in the cell.
result(b, action) ==
    LET currentPlayer == player(b)
    IN  [b EXCEPT ![action[1]][action[2]] = currentPlayer]

\* ----------------------------------------------------------- minimax
\* The sentinels the search uses for minus and plus infinity.
NEG_INF == -999
POS_INF == 999

RECURSIVE MAX_VALUE(_, _, _), MIN_VALUE(_, _, _)

\* A bug MAX_VALUE could have: the comparison of the break is the wrong way
\* round, so the loop stops while alpha is still below beta.
MAX_VALUE_breakBelow(b, alpha, beta) ==
    IF terminal(b) THEN utility(b)
    ELSE LET acts == actions(b).items
             RECURSIVE Loop(_, _, _)
             Loop(i, score, alpha_i) ==
                 IF i > Len(acts) THEN score
                 ELSE LET score1 == max(score, MIN_VALUE(result(b, acts[i]), alpha_i, beta))
                      IN  IF max(alpha_i, score1) < beta THEN score1
                          ELSE Loop(i + 1, score1, max(alpha_i, score1))
         IN  Loop(1, NEG_INF, alpha)

\* A bug MIN_VALUE could have: the comparison of the break is the wrong way
\* round, so the loop stops while beta is still above alpha.
MIN_VALUE_breakAbove(b, alpha, beta) ==
    IF terminal(b) THEN utility(b)
    ELSE LET acts == actions(b).items
             RECURSIVE Loop(_, _, _)
             Loop(i, score, beta_i) ==
                 IF i > Len(acts) THEN score
                 ELSE LET score1 == min(score, MAX_VALUE(result(b, acts[i]), alpha, beta_i))
                      IN  IF min(beta_i, score1) > alpha THEN score1
                          ELSE Loop(i + 1, score1, min(beta_i, score1))
         IN  Loop(1, POS_INF, beta)

\* MAX_VALUE(board, alpha, beta).  Loop(i, score, alpha_i) is the for loop from
\* its i-th action on, with the values score and alpha have there: it raises
\* score and alpha and breaks once alpha > beta.
MAX_VALUE(b, alpha, beta) ==
    IF terminal(b) THEN utility(b)
    ELSE LET acts == actions(b).items
             RECURSIVE Loop(_, _, _)
             Loop(i, score, alpha_i) ==
                 IF i > Len(acts) THEN score
                 ELSE LET score1 == max(score, MIN_VALUE(result(b, acts[i]), alpha_i, beta))
                      IN  IF max(alpha_i, score1) > beta THEN score1
                          ELSE Loop(i + 1, score1, max(alpha_i, score1))
         IN  Loop(1, NEG_INF, alpha)

\* MIN_VALUE(board, alpha, beta).  Loop(i, score, beta_i) is the for loop from
\* its i-th action on: it lowers score and beta and breaks once beta < alpha.
MIN_VALUE(b, alpha, beta) ==
    IF terminal(b) THEN utility(b)
    ELSE LET acts == actions(b).items
             RECURSIVE Loop(_, _, _)
             Loop(i, score, beta_i) ==
                 IF i > Len(acts) THEN score
                 ELSE LET score1 == min(score, MAX_VALUE(result(b, acts[i]), alpha, beta_i))
                      IN  IF min(beta_i, score1) < alpha THEN score1
                          ELSE Loop(i + 1, score1, min(beta_i, score1))
         IN  Loop(1, POS_INF, beta)

\* Node(board, action, score) of util: what the top level selects from.
Node(b, action, score) == [board |-> b, action |-> action, score |-> score]

\* The score given to one top-level action: fresh bounds, MIN_VALUE in the
\* branch of X and MAX_VALUE in the other branch.
score(b, currentPlayer, action) ==
    IF currentPlayer = X
    THEN MIN_VALUE(result(b, action), NEG_INF, POS_INF)
    ELSE MAX_VALUE(result(b, action), NEG_INF, POS_INF)

RECURSIVE appendNodes(_, _, _, _, _)
\* The loop appending one node per action, from the k-th action on.
appendNodes(b, currentPlayer, acts, k, nodeList) ==
    IF k > Len(acts) THEN nodeList
    ELSE appendNodes(b, currentPlayer, acts, k + 1,
            Append(nodeList, Node(b, acts[k], score(b, currentPlayer, acts[k]))))

\* A bug the selection could have: the comparisons are the wrong way round.
Better_reversed(currentPlayer, node, bestNode) ==
    IF currentPlayer = X THEN node.score < bestNode.score
    ELSE node.score > bestNode.score

\* A bug the selection could have: an equal score replaces the best node too.
Better_orEqual(currentPlayer, node, bestNode) ==
    IF currentPlayer = X THEN node.score >= bestNode.score
    ELSE node.score <= bestNode.score

\* `node` replaces `bestNode` on a strictly better score only: greater in the
\* branch of X, smaller in the other branch.
Better(currentPlayer, node, bestNode) ==
    IF currentPlayer = X THEN node.score > bestNode.score
    ELSE node.score < bestNode.score

RECURSIVE selectBest(_, _, _, _)
\* The selection loop from the k-th node on; `bestNode` is the best so far.
selectBest(currentPlayer, nodeList, k, bestNode) ==
    IF k > Len(nodeList) THEN bestNode
    ELSE selectBest(currentPlayer, nodeList, k + 1,
            IF Better(currentPlayer, nodeList[k], bestNode) THEN nodeList[k]
            ELSE bestNode)

\* The top level of minimax().  Both branches iterate actions(board), which
\* raises TypeError when it is None; nodeList[0] of an empty list would raise
\* IndexError; otherwise the action of the best node is returned.  `nodeList`
\* is the list as the call left it.
minimaxRun(b) ==
    LET currentPlayer == player(b)
    IN  IF actions(b).isNone
        THEN [out |-> Raised("TypeError"), nodeList |-> <<>>]
        ELSE LET nodeList == appendNodes(b, currentPlayer, actions(b).items, 1, <<>>)
             IN  IF Len(nodeList) = 0
                 THEN [out |-> Raised("IndexError"), nodeList |-> nodeList]
                 ELSE [out |-> Returned(selectBest(currentPlayer, nodeList, 1,
                                                   nodeList[1]).action),
                       nodeList |-> nodeList]

\* minimax(board): what the call returns or raises
minimax(b) == minimaxRun(b).out

\* ------------------------------------------- result() on the list objects
\* A board is a list object holding the addresses of three row list objects;
\* `heap` is the sequence of the list objects, an address its index.

\* The value of the board object at address `ref`.
Load(h, ref) == [i \in Idx |-> h[h[ref][i]]]

\* The objects of a freshly built board: its rows at 1..3, the board at 4.
Store(b) == <<b[0], b[1], b[2], [i \in Idx |-> i + 1]>>
\* The address of that board: the object built last.
BoardRef == Len(Store(initial_state))

\* A bug result() could have: copy.copy, which copies the outer list only and
\* shares the rows.
deepcopy_shallow(h, ref) ==
    [heap |-> Append(h, h[ref]), ref |-> Len(h) + 1]

\* copy.deepcopy(board): three new rows and a new outer list holding them.
deepcopy(h, ref) ==
    LET n == Len(h)
    IN  [heap |-> h \o <<h[h[ref][0]], h[h[ref][1]], h[h[ref][2]],
                         [i \in Idx |-> n + 1 + i]>>,
         ref |-> n + 4]

\* result(board, action) for an action that is not None, on the objects:
\* copy, read player(board), store it in the copy, return the copy.
resultCall(h, ref, action) ==
    LET copied == deepcopy(h, ref)
        resultBoard == copied.ref
        currentPlayer == player(Load(h, ref))
        row == copied.heap[resultBoard][action[1]]
    IN  [heap |-> [copied.heap EXCEPT ![row][action[2]] = currentPlayer],
         ref |-> resultBoard]

\* ------------------------------------------------ the rules of the game
\* The game as its rules state it, independent of the functions above: the
\* reference the claims are judged against.

\* The eight lines: three rows, three columns, two diagonals.
Lines ==
    {{<<r, 0>>, <<r, 1>>, <<r, 2>>} : r \in Idx} \cup
    {{<<0, c>>, <<1, c>>, <<2, c>>} : c \in Idx} \cup
    {{<<0, 0>>, <<1, 1>>, <<2, 2>>}, {<<0, 2>>, <<1, 1>>, <<2, 0>>}}

Fills(b, m) == \E line \in Lines : \A c \in line : b[c[1]][c[2]] = m
Marked(b) == {c \in Cells : b[c[1]][c[2]] # EMPTY}
Full(b) == Marked(b) = Cells
Over(b) == Fills(b, X) \/ Fills(b, O) \/ Full(b)
Other(m) == IF m = X THEN O ELSE X

\* X moves first and the marks alternate: who moves after k moves.
Mover(k) == IF k % 2 = 0 THEN X ELSE O
Place(b, c, m) == [b EXCEPT ![c[1]][c[2]] = m]
Free(b) == Cells \ Marked(b)

\* The boards k legal moves away from the empty board.
RECURSIVE ReachAt(_)
ReachAt(k) ==
    IF k = 0 THEN {initial_state}
    ELSE UNION {{Place(b, c, Mover(k - 1)) : c \in Free(b)} :
                    b \in {x \in ReachAt(k - 1) : ~Over(x)}}

Payoff(b) == IF Fills(b, X) THEN 1 ELSE IF Fills(b, O) THEN -1 ELSE 0
Greatest(S) == CHOOSE v \in S : \A w \in S : v >= w
Least(S) == CHOOSE v \in S : \A w \in S : v <= w

\* Unpruned full-depth minimax by backward induction: the table of the exact
\* values of the boards k or more legal moves away from the empty board.
RECURSIVE ExactFrom(_)
ExactFrom(k) ==
    IF k > 9 THEN <<>>
    ELSE LET deeper == ExactFrom(k + 1)
             Best(b) ==
                 IF Over(b) THEN Payoff(b)
                 ELSE LET vals == {deeper[Place(b, c, Mover(k))] : c \in Free(b)}
                      IN  IF Mover(k) = X THEN Greatest(vals) ELSE Least(vals)
         IN  [b \in ReachAt(k) |-> Best(b)] @@ deeper

Exact == ExactFrom(0)

\* The exact value of a board reachable by legal moves.
Value(b) == Exact[b]

\* ------------------------------------------------- a game from the start
\* Every legal play from initial_state(), with minimax() asked at any board.
Init ==
    /\ board = initial_state
    /\ order \in Orders
    /\ call = "none"
    /\ arg = <<>>
    /\ ret = <<>>
    /\ heap = <<>>
    /\ engine = None
    /\ moves = 0

\* A legal move: the caller replaces its board by result(board, action) for
\* one of the available actions.
Move ==
    /\ ~terminal(board)
    /\ \E action \in possibleActions(board) :
          board' = result(board, action)
    /\ moves' = moves + 1
    /\ call' = "none"
    /\ arg' = <<>>
    /\ ret' = <<>>
    /\ UNCHANGED <<order, heap, engine>>

\* The caller asks minimax() for an action on its board.
Search ==
    /\ call = "none"
    /\ ret' = minimaxRun(board)
    /\ call' = "minimax"
    /\ UNCHANGED <<board, order, arg, heap, engine, moves>>

Next == Move \/ Search

Spec == Init /\ [][Next]_vars

\* ------------------------------------------------ play from scenario 4
\* The board of end-to-end scenario 4, which no legal play reaches.
Scenario4 ==
    [initial_state EXCEPT ![1][1] = X, ![2][0] = X]

ScenarioInit ==
    /\ board = Scenario4
    /\ order \in Orders
    /\ call = "none"
    /\ arg = <<>>
    /\ ret = <<>>
    /\ heap = <<>>
    /\ engine = None
    /\ moves = 0

ScenarioSpec == ScenarioInit /\ [][Next]_vars

\* ------------------------------------------------- calls on any board
\* Any 3x3 board over {EMPTY, X, O}, with one call made on it.
AnyInit ==
    /\ board \in AllBoards
    /\ order \in Orders
    /\ call = "none"
    /\ arg = <<>>
    /\ ret = <<>>
    /\ heap = Store(board)
    /\ engine = None
    /\ moves = 0

CallWinner ==
    /\ call = "none"
    /\ call' = "winner"
    /\ ret' = Returned(winner(board))
    /\ UNCHANGED <<board, order, arg, heap, engine, moves>>

\* result(board, action) with an available action
CallResult ==
    /\ call = "none"
    /\ \E action \in possibleActions(board) :
          /\ arg' = action
          /\ heap' = resultCall(heap, BoardRef, action).heap
          /\ ret' = Returned(resultCall(heap, BoardRef, action).ref)
    /\ call' = "result"
    /\ UNCHANGED <<board, order, engine, moves>>

\* result(board, None): the exception is raised before anything is copied
CallResultNone ==
    /\ call = "none"
    /\ call' = "result"
    /\ arg' = <<>>
    /\ ret' = Raised("Exception")
    /\ UNCHANGED <<board, order, heap, engine, moves>>

\* minimax(board) in violation of its precondition: the board is terminal
CallMinimaxTerminal ==
    /\ call = "none"
    /\ terminal(board)
    /\ call' = "minimax"
    /\ ret' = minimaxRun(board)
    /\ UNCHANGED <<board, order, arg, heap, engine, moves>>

AnyNext == CallWinner \/ CallResult \/ CallResultNone \/ CallMinimaxTerminal

AnySpec == AnyInit /\ [][AnyNext]_vars

\* ------------------------------------------------------- engine games
\* A game from initial_state() in which `engine` plays what minimax() returns
\* and the other side plays any available action.
EngineInit ==
    /\ board = initial_state
    /\ order \in Orders
    /\ engine \in {X, O}
    /\ call = "none"
    /\ arg = <<>>
    /\ ret = <<>>
    /\ heap = <<>>
    /\ moves = 0

EngineMove ==
    /\ ~terminal(board)
    /\ player(board) = engine
    /\ ret' = minimaxRun(board)
    /\ call' = "minimax"
    /\ IF ret'.out.raised = "none"
       THEN /\ arg' = ret'.out.value
            /\ board' = result(board, ret'.out.value)
            /\ moves' = moves + 1
       ELSE UNCHANGED <<arg, board, moves>>
    /\ UNCHANGED <<order, heap, engine>>

OpponentMove ==
    /\ ~terminal(board)
    /\ player(board) # engine
    /\ \E action \in possibleActions(board) :
          /\ arg' = action
          /\ board' = result(board, action)
    /\ moves' = moves + 1
    /\ call' = "result"
    /\ ret' = <<>>
    /\ UNCHANGED <<order, heap, engine>>

EngineNext == EngineMove \/ OpponentMove

EngineSpec == EngineInit /\ [][EngineNext]_vars

\* ================================================================ claims

\* The mark to move on the caller's board by the rules, and the value that
\* is a win for it.
ToMove == Mover(moves)
WinFor(m) == IF m = X THEN 1 ELSE -1

\* The exact value of the board an action leads to from the caller's board.
After(a) == Value(Place(board, a, ToMove))
NotLost(a) == IF ToMove = X THEN After(a) >= 0 ELSE After(a) <= 0
WinsAtOnce(a) == Fills(Place(board, a, ToMove), ToMove)

Searched == call = "minimax" /\ ~terminal(board)

\* C1: on every board reachable by legal moves that is not terminal,
\* minimax(board) returns an empty cell, and one that does not lead to a forced
\* loss of the player to move whenever some legal action avoids a forced loss;
\* forced losses are judged by unpruned minimax.
C1_NoAvoidableLoss ==
    Searched =>
        /\ ret.out.raised = "none"
        /\ ret.out.value \in Free(board)
        /\ (\E a \in Free(board) : NotLost(a)) => NotLost(ret.out.value)

\* A search at a board where some actions lose by force and others do not,
\* and the action returned does not.
C1_Witness ==
    /\ Searched
    /\ \E a \in Free(board) : ~NotLost(a)
    /\ ret.out.raised = "none"
    /\ NotLost(ret.out.value)

\* C2: for every board and every available action, result(board, action)
\* leaves the board passed in as it was and returns a new board that equals it
\* in every cell but the target cell, which holds player(board) of the board
\* passed in.
C2_ResultFrame ==
    (call = "result" /\ ret.raised = "none") =>
        /\ Load(heap, BoardRef) = board
        /\ ret.value # BoardRef
        /\ \A i, j \in Idx : heap[ret.value][i] # heap[BoardRef][j]
        /\ \A c \in Cells :
              Load(heap, ret.value)[c[1]][c[2]] =
                 IF c = arg THEN player(board) ELSE board[c[1]][c[2]]
        /\ Load(heap, ret.value) = result(board, arg)

\* result() has stored a mark in the copy of a board that already holds marks.
C2_Witness ==
    /\ call = "result"
    /\ ret.raised = "none"
    /\ player(board) = O
    /\ Load(heap, ret.value)[arg[1]][arg[2]] = O
    /\ Load(heap, BoardRef)[arg[1]][arg[2]] = EMPTY

\* C3: for every 3x3 board over {EMPTY, X, O}, winner(board) is X when X fills
\* one of the eight lines (also when O fills one too), O when O fills one and X
\* fills none, and None when neither fills one.
C3_WinnerByLines ==
    call = "winner" =>
        ret.value = (IF Fills(board, X) THEN X
                     ELSE IF Fills(board, O) THEN O
                     ELSE None)

\* winner() was called on a board where both marks fill a line, and said X.
C3_Witness ==
    /\ call = "winner"
    /\ Fills(board, X)
    /\ Fills(board, O)
    /\ ret.value = X

\* C4: along every sequence of legal moves from initial_state(), player(board)
\* is X on the empty board and then O, X, ... in turn after each result()
\* step, and player(board) is None exactly when terminal(board) holds.
C4_Alternation ==
    /\ board = initial_state => player(board) = X
    /\ ~terminal(board) => player(board) = Mover(moves)
    /\ player(board) = None <=> terminal(board)

\* Three moves in, the game not over: O has just moved, X moved before.
C4_Witness ==
    /\ moves = 3
    /\ ~terminal(board)
    /\ player(board) = O

\* C5 as stated: wherever the player to move can complete a line at once,
\* minimax(board) returns an action that completes a line at once.
C5_Original ==
    (Searched /\ \E a \in Free(board) : WinsAtOnce(a)) =>
        WinsAtOnce(ret.out.value)

\* The board of end-to-end scenario 2, X to move.
Scenario2 ==
    [initial_state EXCEPT ![0][0] = X, ![0][1] = X, ![1][0] = O, ![1][1] = O]

\* C5 amended: wherever the player to move can complete a line at once,
\* minimax(board) returns an action after which that player wins by force,
\* at once or later; on the board of scenario 2 it returns (0,2).
C5_ForcedWin ==
    (Searched /\ \E a \in Free(board) : WinsAtOnce(a)) =>
        /\ ret.out.value \in Free(board)
        /\ After(ret.out.value) = WinFor(ToMove)
        /\ board = Scenario2 => ret.out.value = <<0, 2>>

\* A search that passed over the move winning at once for a win that comes
\* later.
C5_Witness ==
    /\ Searched
    /\ \E a \in Free(board) : WinsAtOnce(a)
    /\ ~WinsAtOnce(ret.out.value)
    /\ After(ret.out.value) = WinFor(ToMove)

\* C6 as stated: on every terminal board minimax(board) fails and returns no
\* action.
C6_Original ==
    (call = "minimax" /\ terminal(board)) => ret.out.raised # "none"

\* C6 amended: on a terminal board without an empty cell minimax(board) fails
\* with the TypeError of iterating None and returns no action; on a terminal
\* board that has a winner and an empty cell it does not fail: it returns the
\* first empty cell of the iteration order.
C6_FullBoardFails ==
    (call = "minimax" /\ terminal(board)) =>
        IF Full(board)
        THEN ret.out = Raised("TypeError")
        ELSE /\ ret.out.raised = "none"
             /\ ret.out.value = Enumerate(board)[1]

\* minimax() was called on a full board and raised.
C6_Witness ==
    /\ call = "minimax"
    /\ Full(board)
    /\ ret.out.raised = "TypeError"

Corners == {<<0, 0>>, <<0, 2>>, <<2, 0>>, <<2, 2>>}
Centre == <<1, 1>>

\* C7 as stated: minimax(initial_state()) returns a corner or the centre,
\* whatever the iteration order.
C7_Original ==
    (call = "minimax" /\ board = initial_state) =>
        ret.out.value \in Corners \cup {Centre}

\* C7 amended: all nine opening actions score 0 and minimax(initial_state())
\* returns the first of them in the iteration order, which can be an edge.
C7_FirstEnumerated ==
    (call = "minimax" /\ board = initial_state) =>
        /\ Len(ret.nodeList) = 9
        /\ \A k \in 1..Len(ret.nodeList) : ret.nodeList[k].score = 0
        /\ ret.out.value = OrderTable[order][1]

\* minimax(initial_state()) has returned the edge (0,1).
C7_Witness ==
    /\ call = "minimax"
    /\ board = initial_state
    /\ ret.out.value = <<0, 1>>

\* C8 as stated: on the board of scenario 4 the player to move is X,
\* minimax(board) returns (2,2), and the board after (2,2) has winner X.
C8_Original ==
    (call = "minimax" /\ board = Scenario4) =>
        /\ player(board) = X
        /\ ret.out.value = <<2, 2>>
        /\ winner(result(board, <<2, 2>>)) = X

\* C8 amended: on the board of scenario 4 the player to move is O,
\* minimax(board) returns (0,2), the empty cell of the anti-diagonal, and both
\* (0,2) and (2,2) receive an O and leave the board without a winner.
C8_BlocksAntiDiagonal ==
    (call = "minimax" /\ board = Scenario4) =>
        /\ player(board) = O
        /\ ret.out.value = <<0, 2>>
        /\ result(board, <<0, 2>>)[0][2] = O
        /\ result(board, <<2, 2>>)[2][2] = O
        /\ winner(result(board, <<0, 2>>)) = None
        /\ winner(result(board, <<2, 2>>)) = None

\* minimax() has answered on the board of scenario 4.
C8_Witness ==
    /\ call = "minimax"
    /\ board = Scenario4
    /\ ret.out.raised = "none"
    /\ Len(ret.nodeList) = 7

\* C9: for every reachable board that is not terminal and every legal action
\* on it, the score minimax() gives the action (MIN_VALUE or MAX_VALUE of the
\* resulting board with bounds -999 and 999) is the exact value of unpruned
\* full-depth minimax on the resulting board, in each iteration order.
C9_PruningExact ==
    Searched =>
        /\ Len(ret.nodeList) = Cardinality(Free(board))
        /\ \A k \in 1..Len(ret.nodeList) :
              /\ ret.nodeList[k].action = Enumerate(board)[k]
              /\ ret.nodeList[k].score = After(ret.nodeList[k].action)

\* A search whose actions got all three scores: a win, a draw and a loss.
C9_Witness ==
    /\ Searched
    /\ \A v \in {-1, 0, 1} :
          \E k \in 1..Len(ret.nodeList) : ret.nodeList[k].score = v

\* C10: in every game from initial_state() where one side plays what minimax()
\* returns and the other side any legal action, minimax() never fails, every
\* move fills an empty cell, the board is terminal after nine moves at the
\* latest, and the opponent of the engine is never the winner.
C10_EngineNeverLoses ==
    /\ winner(board) # Other(engine)
    /\ ~Fills(board, Other(engine))
    /\ moves = Cardinality(Marked(board))
    /\ moves <= 9
    /\ moves = 9 => terminal(board)
    /\ call = "minimax" => ret.out.raised = "none"

\* An engine game that ended with the engine as the winner.
C10_Witness ==
    /\ call = "minimax"
    /\ ret.out.raised = "none"
    /\ terminal(board)
    /\ winner(board) = engine

====
